---- MODULE Spec2Model ----
(***************************************************************************)
(* Byte pair encoding (crate bpers): the Vocabulary table, its training    *)
(* loop `learn`, and the `encode` / `decode` functions that apply it.      *)
(*                                                                         *)
(* Text is a sequence of code points (what `str::chars` yields, each cast  *)
(* to u32).  A token id is a natural number; an atomic token is stored     *)
(* under the id equal to its code point, a merged token under the id the   *)
(* counter next_token_id had when the merge was made.                      *)
(*                                                                         *)
(* The Vocabulary modelled is the one encode, decode and main.rs use, with *)
(* the fields id_to_token, token_pair_to_id and next_token_id              *)
(* (bpers/src/vocabulary.rs).                                              *)
(***************************************************************************)
EXTENDS Integers, Sequences, FiniteSets, TLC

\* ------------------------------------------------------------------ bounds

\* Code points the corpora and texts are drawn from when learn may be called
\* repeatedly: 'a', 'b'.
Chars == {97, 98}
\* Code points of the corpora of a single learn call on a new table.
FreshChars == {97, 98}

\* Longest corpus handed to learn, and largest merge budget, when learn may
\* be called repeatedly on the same table.
MaxCorpusLen == 4
MaxMerges == 2
\* Number of learn calls made on the one table.
MaxLearns == 3
\* Longest text handed to encode.
MaxTextLen == 4
\* Longest id sequence handed to decode, and how many ids above the largest
\* code point its elements range over.
MaxIdsLen == 2
ExtraIds == 2
\* Iterations of decode's inner loop, for one id, after which the loop is
\* taken never to end (FuelIsEnough: within the bounds only a loop that
\* really never ends gets this far).
DecodeFuel == 32

\* Longest corpus and largest budget for a single learn call on a new table.
MaxFreshLen == 9
MaxFreshMerges == 4

\* The corpus of the crate's test: "aaabdaaabac".
RefCorpus == <<97, 97, 97, 98, 100, 97, 97, 97, 98, 97, 99>>

SeqsUpTo(S, n) == UNION {[1..k -> S] : k \in 0..n}

Corpora == SeqsUpTo(Chars, MaxCorpusLen)
Budgets == 0..MaxMerges
Texts == SeqsUpTo(Chars, MaxTextLen)
FreshCorpora == SeqsUpTo(FreshChars, MaxFreshLen) \cup {RefCorpus}
FreshBudgets == 0..MaxFreshMerges

\* ------------------------------------------------------------ token_pair.rs

Lonely(n) == [tag |-> "Lonely", code |-> n]

Pair(left, right) == [left |-> left, right |-> right]

\* Pair::as_token
PairToken(pair) == [tag |-> "Pair", pair |-> pair]

\* ------------------------------------------------------------------- state

VARIABLES
    id_to_token,        \* Vocabulary.id_to_token: id -> Token
    token_pair_to_id,   \* Vocabulary.token_pair_to_id: Pair -> id
    next_token_id,      \* Vocabulary.next_token_id
    pc,                 \* "idle", the function whose loop is running, or
                        \* "returned" while the caller holds the result
    tokens,             \* the local `tokens` of the running learn / encode
    n_merge,            \* learn's loop counter: merges made by this call
    n_merges,           \* learn's merge budget
    op,                 \* the function called last
    input,              \* its argument (corpus, text or id sequence)
    ret,                \* its return value, once it has returned
    calls,              \* learn calls made on the table so far
    seen                \* code points that occurred in some training corpus

vars == <<id_to_token, token_pair_to_id, next_token_id, pc, tokens, n_merge,
          n_merges, op, input, ret, calls, seen>>

table == <<id_to_token, token_pair_to_id, next_token_id>>

Range(s) == {s[i] : i \in 1..Len(s)}

SetMax(S) == CHOOSE m \in S : \A x \in S : x <= m

\* char::from_u32: a code point is a scalar value up to 0x10FFFF that is no
\* surrogate (0xD800..0xDFFF).
IsChar(code) == code <= 1114111 /\ ~(code >= 55296 /\ code <= 57343)

\* What a call has returned: nothing yet, Ok(value), or one of EncodingError.
Running == [kind |-> "Running"]
Ok(v) == [kind |-> "Ok", value |-> v]
CharNotInVocab(code) ==
    [kind |-> "CharNotInVocab",
     char |-> IF IsChar(code) THEN <<code>> ELSE <<>>,
     code |-> code]
InvalidChar(code) == [kind |-> "InvalidChar", code |-> code]
UnknownToken(code) == [kind |-> "UnknownToken", code |-> code]
\* decode's inner loop never ends (its stack grows until memory runs out).
Diverges == [kind |-> "Diverges"]

\* HashMap::insert: the entry is added, or replaces the one under the key.
Insert(map, key, value) == (key :> value) @@ map

\* Vocabulary::new
Init ==
    /\ id_to_token = <<>>
    /\ token_pair_to_id = <<>>
    /\ next_token_id = 0
    /\ pc = "idle"
    /\ tokens = <<>>
    /\ n_merge = 0
    /\ n_merges = 0
    /\ op = "none"
    /\ input = <<>>
    /\ ret = Running
    /\ calls = 0
    /\ seen = {}

\* ------------------------------------------------------------------- learn

\* The largest code point of the corpus, 0 for the empty corpus.
MaxChar(corpus) == IF corpus = <<>> THEN 0 ELSE SetMax(Range(corpus))

\* Every code point of the corpus that has no entry yet gets a Lonely entry
\* under its own value.
RegisterChars(map, corpus) ==
    [k \in DOMAIN map \cup Range(corpus) |->
        IF k \in DOMAIN map THEN map[k] ELSE Lonely(k)]

\* The head of learn: the code points, the counter's first value, the
\* atomic entries.
LearnStart(corpus, budget) ==
    /\ pc = "idle"
    /\ calls < MaxLearns
    /\ next_token_id' = IF next_token_id = 0 THEN MaxChar(corpus) + 1
                        ELSE next_token_id
    /\ id_to_token' = RegisterChars(id_to_token, corpus)
    /\ tokens' = corpus
    /\ n_merge' = 0
    /\ n_merges' = budget
    /\ pc' = "learn"
    /\ op' = "learn"
    /\ input' = corpus
    /\ ret' = Running
    /\ calls' = calls + 1
    /\ seen' = seen \cup Range(corpus)
    /\ UNCHANGED token_pair_to_id

\* tokens.windows(2), as pairs.
Windows(toks) ==
    [i \in 1..(IF Len(toks) < 2 THEN 0 ELSE Len(toks) - 1) |->
        Pair(toks[i], toks[i + 1])]

\* *adjacent_pair_freq.entry(pair).or_insert(0) += 1 on an IndexMap, which
\* keeps its entries in the order their keys were first inserted.
Bump(freq, pair) ==
    IF \E k \in 1..Len(freq) : freq[k].key = pair
    THEN [k \in 1..Len(freq) |->
            IF freq[k].key = pair
            THEN [key |-> pair, freq |-> freq[k].freq + 1]
            ELSE freq[k]]
    ELSE Append(freq, [key |-> pair, freq |-> 1])

RECURSIVE CountPairs(_, _, _)
CountPairs(windows, i, freq) ==
    IF i > Len(windows) THEN freq
    ELSE CountPairs(windows, i + 1, Bump(freq, windows[i]))

AdjacentPairFreq(toks) == CountPairs(Windows(toks), 1, <<>>)

\* Mutant of MaxFrom: of two entries that compare equal the earlier is kept.
RECURSIVE MaxFromKeepsFirst(_, _, _)
MaxFromKeepsFirst(freq, i, best) ==
    IF i > Len(freq) THEN best
    ELSE MaxFromKeepsFirst(freq, i + 1,
                           IF best.freq >= freq[i].freq THEN best ELSE freq[i])

\* Iterator::max_by_key folds from the first entry and keeps the later of
\* two entries whose keys compare equal.
RECURSIVE MaxFrom(_, _, _)
MaxFrom(freq, i, best) ==
    IF i > Len(freq) THEN best
    ELSE MaxFrom(freq, i + 1, IF best.freq > freq[i].freq THEN best ELSE freq[i])

MaxByKey(freq) == MaxFrom(freq, 2, freq[1])

\* Mutant of Mergeable: a pair that occurs once is merged too.
MergeableOnce(pair_freq) == pair_freq >= 1

\* The frequency a pair needs to be merged.
Mergeable(pair_freq) == pair_freq > 1

\* Mutant of LearnRewrite: after a match the scan moves on by one position.
RECURSIVE LearnRewriteByOne(_, _, _, _, _)
LearnRewriteByOne(toks, i, pair, id, updated) ==
    IF i > Len(toks) THEN updated
    ELSE IF i + 1 <= Len(toks) /\ toks[i] = pair.left /\ toks[i + 1] = pair.right
         THEN LearnRewriteByOne(toks, i + 1, pair, id, Append(updated, id))
         ELSE LearnRewriteByOne(toks, i + 1, pair, id, Append(updated, toks[i]))

\* The rewriting loop of learn: every non-overlapping occurrence of the
\* pair, left to right, becomes the new id.
RECURSIVE LearnRewrite(_, _, _, _, _)
LearnRewrite(toks, i, pair, id, updated) ==
    IF i > Len(toks) THEN updated
    ELSE IF i + 1 <= Len(toks) /\ toks[i] = pair.left /\ toks[i + 1] = pair.right
         THEN LearnRewrite(toks, i + 2, pair, id, Append(updated, id))
         ELSE LearnRewrite(toks, i + 1, pair, id, Append(updated, toks[i]))

\* One pass of learn's loop that merges the most frequent pair.
LearnMerge ==
    /\ pc = "learn"
    /\ n_merge < n_merges
    /\ LET freq == AdjacentPairFreq(tokens) IN
        /\ freq # <<>>
        /\ LET best == MaxByKey(freq) IN
            /\ Mergeable(best.freq)
            /\ id_to_token' = Insert(id_to_token, next_token_id, PairToken(best.key))
            /\ token_pair_to_id' = Insert(token_pair_to_id, best.key, next_token_id)
            /\ tokens' = LearnRewrite(tokens, 1, best.key, next_token_id, <<>>)
    /\ next_token_id' = next_token_id + 1
    /\ n_merge' = n_merge + 1
    /\ UNCHANGED <<pc, n_merges, op, input, ret, calls, seen>>

\* One pass of learn's loop that finds no pair occurring twice: break, and
\* return the tokens.
LearnStop ==
    /\ pc = "learn"
    /\ n_merge < n_merges
    /\ LET freq == AdjacentPairFreq(tokens) IN
        IF freq = <<>> THEN TRUE ELSE ~Mergeable(MaxByKey(freq).freq)
    /\ pc' = "returned"
    /\ ret' = Ok(tokens)
    /\ tokens' = <<>>
    /\ UNCHANGED <<table, n_merge, n_merges, op, input, calls, seen>>

\* The budget is used up: return the tokens.
LearnReturn ==
    /\ pc = "learn"
    /\ n_merge = n_merges
    /\ pc' = "returned"
    /\ ret' = Ok(tokens)
    /\ tokens' = <<>>
    /\ UNCHANGED <<table, n_merge, n_merges, op, input, calls, seen>>

\* ------------------------------------------------------------------ encode

\* The first code point of the text with no entry in id_to_token, 0 if every
\* code point has one (the position, from 1).
RECURSIVE FirstMissing(_, _, _)
FirstMissing(toks, i, id_map) ==
    IF i > Len(toks) THEN 0
    ELSE IF toks[i] \notin DOMAIN id_map THEN i
    ELSE FirstMissing(toks, i + 1, id_map)

NoPair == [index |-> 0, pair |-> Pair(0, 0), merged_id |-> 0]

\* Mutant of BestPair: the leftmost pair that has a merge is taken.
RECURSIVE BestPairLeftmost(_, _, _, _)
BestPairLeftmost(toks, i, pair_map, best) ==
    IF i + 1 > Len(toks) THEN best
    ELSE LET current_pair == Pair(toks[i], toks[i + 1]) IN
         IF current_pair \in DOMAIN pair_map /\ best = NoPair
         THEN BestPairLeftmost(toks, i + 1, pair_map,
                               [index |-> i, pair |-> current_pair,
                                merged_id |-> pair_map[current_pair]])
         ELSE BestPairLeftmost(toks, i + 1, pair_map, best)

\* Mutant of BestPair: the pair with the largest merged id is taken.
RECURSIVE BestPairLargest(_, _, _, _)
BestPairLargest(toks, i, pair_map, best) ==
    IF i + 1 > Len(toks) THEN best
    ELSE LET current_pair == Pair(toks[i], toks[i + 1]) IN
         IF current_pair \in DOMAIN pair_map
            /\ (best = NoPair \/ pair_map[current_pair] > best.merged_id)
         THEN BestPairLargest(toks, i + 1, pair_map,
                              [index |-> i, pair |-> current_pair,
                               merged_id |-> pair_map[current_pair]])
         ELSE BestPairLargest(toks, i + 1, pair_map, best)

\* The scan of one pass: the adjacent pair with the smallest merged id,
\* the leftmost of them; NoPair when no adjacent pair has a merge.
RECURSIVE BestPair(_, _, _, _)
BestPair(toks, i, pair_map, best) ==
    IF i + 1 > Len(toks) THEN best
    ELSE LET current_pair == Pair(toks[i], toks[i + 1]) IN
         IF current_pair \in DOMAIN pair_map
            /\ (best = NoPair \/ pair_map[current_pair] < best.merged_id)
         THEN BestPair(toks, i + 1, pair_map,
                       [index |-> i, pair |-> current_pair,
                        merged_id |-> pair_map[current_pair]])
         ELSE BestPair(toks, i + 1, pair_map, best)

\* Mutant of EncodeRewrite: after a match the scan moves on by one position.
RECURSIVE EncodeRewriteByOne(_, _, _, _, _)
EncodeRewriteByOne(toks, i, pair, id, updated) ==
    IF i > Len(toks) THEN updated
    ELSE IF i + 1 <= Len(toks) /\ toks[i] = pair.left /\ toks[i + 1] = pair.right
         THEN EncodeRewriteByOne(toks, i + 1, pair, id, Append(updated, id))
         ELSE EncodeRewriteByOne(toks, i + 1, pair, id, Append(updated, toks[i]))

\* The rewriting loop of encode.
RECURSIVE EncodeRewrite(_, _, _, _, _)
EncodeRewrite(toks, i, pair, id, updated) ==
    IF i > Len(toks) THEN updated
    ELSE IF i + 1 <= Len(toks) /\ toks[i] = pair.left /\ toks[i + 1] = pair.right
         THEN EncodeRewrite(toks, i + 2, pair, id, Append(updated, id))
         ELSE EncodeRewrite(toks, i + 1, pair, id, Append(updated, toks[i]))

\* encode's loop, run to its end.
RECURSIVE EncodeLoop(_, _)
EncodeLoop(toks, pair_map) ==
    LET best == BestPair(toks, 1, pair_map, NoPair) IN
    IF best = NoPair THEN toks
    ELSE EncodeLoop(EncodeRewrite(toks, 1, best.pair, best.merged_id, <<>>),
                    pair_map)

\* encode(input, vocab), as a function of its arguments.
Encode(text, id_map, pair_map) ==
    LET missing == FirstMissing(text, 1, id_map) IN
    IF missing # 0 THEN CharNotInVocab(text[missing])
    ELSE Ok(EncodeLoop(text, pair_map))

\* The head of encode: the code points and the check that each is a key of
\* id_to_token.
EncodeStart(text) ==
    /\ pc = "idle"
    /\ op' = "encode"
    /\ input' = text
    /\ LET missing == FirstMissing(text, 1, id_to_token) IN
        IF missing # 0
        THEN /\ ret' = CharNotInVocab(text[missing])
             /\ pc' = "returned"
             /\ UNCHANGED tokens
        ELSE /\ ret' = Running
             /\ pc' = "encode"
             /\ tokens' = text
    /\ UNCHANGED <<table, n_merge, n_merges, calls, seen>>

\* One pass of encode's loop: merge the best pair, or return the tokens when
\* there is none.
EncodePass ==
    /\ pc = "encode"
    /\ LET best == BestPair(tokens, 1, token_pair_to_id, NoPair) IN
        IF best = NoPair
        THEN /\ pc' = "returned"
             /\ ret' = Ok(tokens)
             /\ tokens' = <<>>
        ELSE /\ tokens' = EncodeRewrite(tokens, 1, best.pair, best.merged_id, <<>>)
             /\ UNCHANGED <<pc, ret>>
    /\ UNCHANGED <<table, n_merge, n_merges, op, input, calls, seen>>

\* ------------------------------------------------------------------ decode

\* Mutant of DecodeStack: left is pushed before right, so right is popped
\* first.
RECURSIVE DecodeStackLeftFirst(_, _, _, _)
DecodeStackLeftFirst(decoding_stack, decoded_chars, id_map, fuel) ==
    IF decoding_stack = <<>> THEN Ok(decoded_chars)
    ELSE IF fuel = 0 THEN Diverges
    ELSE LET current_id == decoding_stack[Len(decoding_stack)]
             popped == SubSeq(decoding_stack, 1, Len(decoding_stack) - 1)
         IN
         IF current_id \notin DOMAIN id_map THEN UnknownToken(current_id)
         ELSE LET token == id_map[current_id] IN
              IF token.tag = "Lonely"
              THEN IF IsChar(token.code)
                   THEN DecodeStackLeftFirst(popped, Append(decoded_chars, token.code),
                                             id_map, fuel - 1)
                   ELSE InvalidChar(token.code)
              ELSE DecodeStackLeftFirst(
                       popped \o <<token.pair.left, token.pair.right>>,
                       decoded_chars, id_map, fuel - 1)

\* The inner loop of decode for one id: pop an id, emit the character of a
\* Lonely token, push right then left of a Pair token.  The top of the stack
\* is its last element.
RECURSIVE DecodeStack(_, _, _, _)
DecodeStack(decoding_stack, decoded_chars, id_map, fuel) ==
    IF decoding_stack = <<>> THEN Ok(decoded_chars)
    ELSE IF fuel = 0 THEN Diverges
    ELSE LET current_id == decoding_stack[Len(decoding_stack)]
             popped == SubSeq(decoding_stack, 1, Len(decoding_stack) - 1)
         IN
         IF current_id \notin DOMAIN id_map THEN UnknownToken(current_id)
         ELSE LET token == id_map[current_id] IN
              IF token.tag = "Lonely"
              THEN IF IsChar(token.code)
                   THEN DecodeStack(popped, Append(decoded_chars, token.code),
                                    id_map, fuel - 1)
                   ELSE InvalidChar(token.code)
              ELSE DecodeStack(popped \o <<token.pair.right, token.pair.left>>,
                               decoded_chars, id_map, fuel - 1)

\* The outer loop of decode.
RECURSIVE DecodeFrom(_, _, _, _)
DecodeFrom(token_ids, i, decoded_chars, id_map) ==
    IF i > Len(token_ids) THEN Ok(decoded_chars)
    ELSE LET one == DecodeStack(<<token_ids[i]>>, decoded_chars, id_map, DecodeFuel) IN
         IF one.kind = "Ok" THEN DecodeFrom(token_ids, i + 1, one.value, id_map)
         ELSE one

\* decode(token_ids, vocab), as a function of its arguments.
Decode(token_ids, id_map) == DecodeFrom(token_ids, 1, <<>>, id_map)

DecodeCall(token_ids) ==
    /\ pc = "idle"
    /\ op' = "decode"
    /\ input' = token_ids
    /\ ret' = Decode(token_ids, id_to_token)
    /\ pc' = "returned"
    /\ UNCHANGED <<table, tokens, n_merge, n_merges, calls, seen>>

\* The caller has taken the result of the call; only the table stays.
Resume ==
    /\ pc = "returned"
    /\ pc' = "idle"
    /\ op' = "none"
    /\ input' = <<>>
    /\ ret' = Running
    /\ n_merge' = 0
    /\ n_merges' = 0
    /\ UNCHANGED <<table, tokens, calls, seen>>

\* The ids a Pair token expands to.
Children(id, id_map) ==
    IF id \in DOMAIN id_map /\ id_map[id].tag = "Pair"
    THEN {id_map[id].pair.left, id_map[id].pair.right}
    ELSE {}

\* Every id decode's stack can come to hold when it starts from the ids.
RECURSIVE Reach(_, _)
Reach(ids, id_map) ==
    LET more == ids \cup UNION {Children(id, id_map) : id \in ids} IN
    IF more = ids THEN ids ELSE Reach(more, id_map)

\* The id is among the ids its own expansion pushes.
OnCycle(id, id_map) == id \in Reach(Children(id, id_map), id_map)

\* ----------------------------------------------------------- specifications

\* The ids decode is tried on: the code points and the ids next above them.
Ids == Chars \cup {SetMax(Chars) + k : k \in 1..ExtraIds}
IdSeqs == SeqsUpTo(Ids, MaxIdsLen)

\* Any number of learn calls on one table, and encode and decode between
\* them.  A call is made only while no other call is running.
Next ==
    \/ /\ pc = "idle"
       /\ \E corpus \in Corpora, budget \in Budgets : LearnStart(corpus, budget)
    \/ LearnMerge
    \/ LearnStop
    \/ LearnReturn
    \/ /\ pc = "idle"
       /\ \E text \in Texts : EncodeStart(text)
    \/ EncodePass
    \/ /\ pc = "idle"
       /\ \E token_ids \in IdSeqs : DecodeCall(token_ids)
    \/ Resume

Spec == Init /\ [][Next]_vars

\* One learn call on a new table.
NextFresh ==
    \/ /\ calls = 0
       /\ \E corpus \in FreshCorpora, budget \in FreshBudgets :
             LearnStart(corpus, budget)
    \/ LearnMerge
    \/ LearnStop
    \/ LearnReturn
    \/ Resume

SpecFresh == Init /\ [][NextFresh]_vars

\* Encode's loop is one synchronous loop in the calling thread: once entered,
\* its passes are taken until it returns.
SpecLive == Spec /\ WF_vars(EncodePass)

\* ------------------------------------------------------------------ claims

\* DecodeFuel cuts no finite run short: a decode taken never to end has
\* reached an id that its own expansion pushes again.
FuelIsEnough ==
    (op = "decode" /\ ret = Diverges) =>
        \E id \in Reach(Range(input), id_to_token) : OnCycle(id, id_to_token)

\* The code point has an atomic entry in the table.
HasAtomicEntry(code) ==
    \E k \in DOMAIN id_to_token : id_to_token[k] = Lonely(code)

AllAtomic(text) == \A i \in 1..Len(text) : HasAtomicEntry(text[i])

EncodeReturned == pc = "returned" /\ op = "encode"
LearnReturned == pc = "returned" /\ op = "learn"

\* C1: after any learn calls, encode of a text whose code points all have
\* an atomic entry returns Ok, and decode of the ids it returns, with the
\* same table, returns exactly the text.
RoundTrip ==
    (EncodeReturned /\ AllAtomic(input)) =>
        /\ ret.kind = "Ok"
        /\ Decode(ret.value, id_to_token) = Ok(input)

\* A round trip through at least one merge, in a table where a merged id has
\* taken the value of the code point of 'b'.
RoundTripWitness ==
    /\ EncodeReturned /\ AllAtomic(input)
    /\ ret.kind = "Ok"
    /\ Len(ret.value) < Len(input)
    /\ \E k \in DOMAIN id_to_token : k \in Chars /\ id_to_token[k].tag = "Pair"
    /\ Decode(ret.value, id_to_token) = Ok(input)

\* C2: encode of a text with a character that occurred in no training
\* corpus returns CharNotInVocab with the code point of such a character,
\* and never gets to build a token sequence.
UnknownSymbolRejected ==
    (op = "encode" /\ \E i \in 1..Len(input) : input[i] \notin seen) =>
        /\ pc = "returned"
        /\ ret.kind = "CharNotInVocab"
        /\ ret.code \in Range(input) \ seen

\* C3: after learn(corpus, n) on a new table has returned tokens,
\* encode(corpus) with the table returns Ok(tokens).
TrainingSelfConsistency ==
    (LearnReturned /\ calls = 1) =>
        Encode(input, id_to_token, token_pair_to_id) = Ok(ret.value)

\* A learn call on a new table that made at least two merges, and whose
\* tokens encode reproduces.
TrainingSelfConsistencyWitness ==
    /\ LearnReturned /\ calls = 1
    /\ n_merge >= 2
    /\ Encode(input, id_to_token, token_pair_to_id) = Ok(ret.value)

\* C4: every step (of learn, or any other) keeps every entry of id_to_token:
\* a key stays a key and keeps its Token.
MonotonicGrowth ==
    [][\A k \in DOMAIN id_to_token :
          k \in DOMAIN id_to_token' /\ id_to_token'[k] = id_to_token[k]]_vars

\* C5: decode of an id sequence containing an id with no entry returns
\* UnknownToken carrying an id with no entry.
UnknownIdRejected ==
    (op = "decode" /\ \E i \in 1..Len(input) : input[i] \notin DOMAIN id_to_token) =>
        /\ ret.kind = "UnknownToken"
        /\ ret.code \notin DOMAIN id_to_token

\* C6: learn("aaabdaaabac", n) on a new table with n >= 3 makes exactly 3
\* merges, returns 5 tokens and leaves 7 entries in id_to_token: the 4
\* characters and 3 merged pairs.
ReferenceExample ==
    (LearnReturned /\ calls = 1 /\ input = RefCorpus /\ n_merges >= 3) =>
        /\ n_merge = 3
        /\ Len(ret.value) = 5
        /\ Cardinality(DOMAIN id_to_token) = 7
        /\ Cardinality({k \in DOMAIN id_to_token : id_to_token[k].tag = "Lonely"}) = 4
        /\ Cardinality(DOMAIN token_pair_to_id) = 3

ReferenceExampleWitness ==
    /\ LearnReturned /\ calls = 1 /\ input = RefCorpus /\ n_merges > 3
    /\ n_merge = 3
    /\ Len(ret.value) = 5

\* How often the pair occurs among the adjacent pairs of the tokens, and
\* where it occurs first.
Occurrences(pair, toks) ==
    Cardinality({i \in DOMAIN Windows(toks) : Windows(toks)[i] = pair})

FirstAt(pair, toks) ==
    CHOOSE i \in DOMAIN Windows(toks) :
        /\ Windows(toks)[i] = pair
        /\ \A j \in 1..(i - 1) : Windows(toks)[j] # pair

\* The adjacent pairs of the tokens that occur most often.
MostFrequent(toks) ==
    {p \in Range(Windows(toks)) :
        \A q \in Range(Windows(toks)) : Occurrences(q, toks) <= Occurrences(p, toks)}

PairLess(p, q) == p.left < q.left \/ (p.left = q.left /\ p.right < q.right)

\* A step of learn's loop that merges while several pairs share the highest
\* frequency.
MergesOnTie ==
    /\ pc = "learn"
    /\ n_merge' = n_merge + 1
    /\ Cardinality(MostFrequent(tokens)) > 1

\* C7, as claimed: on a tie, the merged pair is the smallest by (left, right).
TieBreakSmallest ==
    [][MergesOnTie =>
        LET merged == id_to_token'[next_token_id].pair IN
        \A q \in MostFrequent(tokens) \ {merged} : PairLess(merged, q)]_vars

\* C7, amended: on a tie, the merged pair is the most frequent pair whose
\* first occurrence in the tokens is the latest.
TieBreakLatestFirstOccurrence ==
    [][MergesOnTie =>
        LET merged == id_to_token'[next_token_id].pair IN
        /\ merged \in MostFrequent(tokens)
        /\ \A q \in MostFrequent(tokens) \ {merged} :
              FirstAt(q, tokens) < FirstAt(merged, tokens)]_vars

\* The first pass of a learn call found a tie and merged the tied pair that
\* first occurs latest, which is not the smallest one.
TieBreakWitness ==
    /\ op = "learn" /\ n_merge >= 1
    /\ Cardinality(MostFrequent(input)) > 1
    /\ LET merged == id_to_token[next_token_id - n_merge].pair IN
        /\ \A q \in MostFrequent(input) \ {merged} :
              FirstAt(q, input) < FirstAt(merged, input)
        /\ \E q \in MostFrequent(input) : PairLess(q, merged)

\* C8: every step of learn("", n) leaves id_to_token, token_pair_to_id and
\* next_token_id as they were, and the call returns the empty tokenization.
EmptyCorpusNoOp ==
    [][((pc = "learn" \/ pc' = "learn") /\ input' = <<>>) =>
        /\ table' = table
        /\ (pc' = "returned" => ret' = Ok(<<>>))]_vars

\* No adjacent pair of code points occurs twice in the corpus.
NoRepeatedPair(corpus) ==
    \A i, j \in DOMAIN Windows(corpus) :
        i # j => Windows(corpus)[i] # Windows(corpus)[j]

\* C9: a learn call on a corpus with no repeated adjacent pair adds only
\* atomic entries when it starts, and its first pass (or the spent budget)
\* ends it with no merge made, neither mapping touched and the corpus's code
\* points returned.
EarlyStop ==
    [][/\ (pc = "idle" /\ pc' = "learn" /\ NoRepeatedPair(input')) =>
            /\ token_pair_to_id' = token_pair_to_id
            /\ \A k \in DOMAIN id_to_token' :
                  IF k \in DOMAIN id_to_token
                  THEN id_to_token'[k] = id_to_token[k]
                  ELSE id_to_token'[k].tag = "Lonely"
       /\ (pc = "learn" /\ NoRepeatedPair(input)) =>
            /\ pc' = "returned"
            /\ n_merge' = 0
            /\ ret' = Ok(input)
            /\ id_to_token' = id_to_token
            /\ token_pair_to_id' = token_pair_to_id]_vars

\* A learn call with budget left on a corpus of at least two code points, no
\* pair repeated, has returned the corpus with no merge made.
EarlyStopWitness ==
    /\ LearnReturned
    /\ Len(input) >= 2 /\ NoRepeatedPair(input)
    /\ n_merges >= 1 /\ n_merge = 0
    /\ ret = Ok(input)

\* Some adjacent pair of the tokens has a merge.
HasMerge(toks) ==
    \E i \in DOMAIN Windows(toks) : Windows(toks)[i] \in DOMAIN token_pair_to_id

\* C10: each pass of encode's loop either makes the tokens strictly fewer and
\* stays in the loop, or finds no pair with a merge and returns the tokens;
\* and an encode call that entered its loop returns.
EncodeTerminates ==
    /\ [][pc = "encode" =>
            IF HasMerge(tokens)
            THEN pc' = "encode" /\ Len(tokens') < Len(tokens)
            ELSE pc' = "returned" /\ ret' = Ok(tokens)]_vars
    /\ (pc = "encode" ~> pc = "returned")

\* encode is in its loop after a pass that merged.
EncodeTerminatesWitness ==
    /\ pc = "encode"
    /\ Len(tokens) < Len(input)

\* The adjacent pairs of the tokens that are keys of token_pair_to_id.
MergePairs(toks) == Range(Windows(toks)) \cap DOMAIN token_pair_to_id

\* Where the non-overlapping occurrences of the pair, taken left to right,
\* start: an occurrence counts when the occurrences right before it, each
\* one position after the other, are even in number.
Occurs(toks, pair) ==
    {i \in DOMAIN Windows(toks) :
        /\ Windows(toks)[i] = pair
        /\ Cardinality({j \in 1..(i - 1) :
                \A m \in j..(i - 1) : Windows(toks)[m] = pair}) % 2 = 0}

\* The tokens with each of these occurrences replaced by the id.
Replaced(toks, pair, id) ==
    LET at == Occurs(toks, pair)
        kept == {i \in 1..Len(toks) : (i - 1) \notin at}
        nth(n) == CHOOSE i \in kept : Cardinality({j \in kept : j <= i}) = n
    IN [n \in 1..Cardinality(kept) |->
            IF nth(n) \in at THEN id ELSE toks[nth(n)]]

\* C11: a pass of encode's loop over tokens with a pair that has a merge
\* replaces the non-overlapping occurrences, left to right, of the pair
\* whose merged id is the smallest among the adjacent pairs with a merge;
\* and the tokens encode returns have no adjacent pair with a merge.
EncodeSmallestMergedId ==
    /\ [][(pc = "encode" /\ HasMerge(tokens)) =>
            \E p \in MergePairs(tokens) :
                /\ \A q \in MergePairs(tokens) \ {p} :
                      token_pair_to_id[p] < token_pair_to_id[q]
                /\ tokens' = Replaced(tokens, p, token_pair_to_id[p])]_vars
    /\ []((EncodeReturned /\ ret.kind = "Ok") => ~HasMerge(ret.value))

\* encode has made its first pass over a text in which two different pairs
\* have a merge and the leftmost of them has not the smallest merged id: the
\* pair with the smallest merged id is the one replaced.
EncodeSmallestMergedIdWitness ==
    /\ pc = "encode"
    /\ \E p \in MergePairs(input) :
        /\ \A q \in MergePairs(input) \ {p} :
              token_pair_to_id[p] < token_pair_to_id[q]
        /\ \E q \in MergePairs(input) :
              \E i \in DOMAIN Windows(input) :
                 /\ Windows(input)[i] = q
                 /\ \A j \in 1..i : Windows(input)[j] # p
        /\ tokens = Replaced(input, p, token_pair_to_id[p])

\* C12: in every table that learn calls have built, no Pair entry has its
\* own id as left or right, no id is among the ids its own expansion pushes,
\* and no decode call runs without end.
DecodeTerminatesOnLearnedTables ==
    /\ \A k \in DOMAIN id_to_token :
          /\ k \notin Children(k, id_to_token)
          /\ ~OnCycle(k, id_to_token)
    /\ (op = "decode" => ret # Diverges)

\* C13: the tokens a learn call returns, whatever learn calls came before,
\* decode with the table the call leaves to exactly its corpus.
LearnIsLossless ==
    LearnReturned => Decode(ret.value, id_to_token) = Ok(input)

\* C14: token_pair_to_id[p] = k exactly when id_to_token[k] is the Pair token
\* of p; so no two ids hold the same Pair token, and every Pair entry is the
\* value of its pair in token_pair_to_id.
MappingsMutuallyInverse ==
    /\ \A p \in DOMAIN token_pair_to_id :
          /\ token_pair_to_id[p] \in DOMAIN id_to_token
          /\ id_to_token[token_pair_to_id[p]] = PairToken(p)
    /\ \A k \in DOMAIN id_to_token :
          id_to_token[k].tag = "Pair" =>
              /\ id_to_token[k].pair \in DOMAIN token_pair_to_id
              /\ token_pair_to_id[id_to_token[k].pair] = k

====
